---- MODULE Spec2Model ----
(***************************************************************************)
(* Model of the live quiz room engine (initGameSockets, endQuestion,       *)
(* makeLeaderboard).  One action per inbound socket event and one for the  *)
(* deferred end-question timer callback.                                   *)
(*                                                                         *)
(* Numeric policy: JavaScript keeps scores as doubles.  The model keeps    *)
(* them as exact rationals, stored as integer multiples of 1/ScoreScale    *)
(* points (ScoreScale is a common multiple of every possible size of a     *)
(* correct set), so 1000 / n is exact.                                     *)
(***************************************************************************)
EXTENDS Integers, Sequences, FiniteSets, TLC

(* ------------------------------ bounds -------------------------------- *)
\* choices per question: submitted and correct indices range over 0..NumChoices-1
NumChoices == 3
\* longest choiceIndices array drawn for the scoring function on its own
MaxSubmitLen == 3
\* Date.now() is not advanced beyond this many milliseconds
MaxNow == 2401
\* setTimeout callbacks pending at once
MaxTimers == 2
\* host:next_question is not modelled once currentQ has reached this value
MaxCurrentQ == 3
\* handler runs and clock steps in one run
MaxEvents == 7
\* players of the room drawn for makeLeaderboard on its own
MaxPlayers == 3
\* times makeLeaderboard is computed on the same room
MaxCalls == 2

(* -------------------------- program constants -------------------------- *)
DefaultTimeLimitSec == 20
GraceMs == 200
BasePoints == 1000
BonusStepMs == 50
\* endsAt: null; null coerces to 0 in room.endsAt - Date.now()
Null == 0

(* ------------------------------ inputs --------------------------------- *)
\* socket.id of the first, second, ... connection: ids are fresh and never reused
SocketIds == << "s1", "s2" >>
Sockets == { SocketIds[i] : i \in 1..Len(SocketIds) }
RoomCodes == {"K7QZ", "M2XP"}
Names == {"ann"}
\* steps by which the clock advances between two handler runs
TickSteps == {1100, 1200}

\* jwt.verify(token, secret): a token either verifies to {id, role} or throws
Tokens ==
  { [valid |-> TRUE, id |-> "u1", role |-> "host"],
    [valid |-> TRUE, id |-> "u1", role |-> "player"],
    [valid |-> FALSE, id |-> "", role |-> ""] }

\* timeLimitSec 0 stands for an absent time limit (falsy in q.timeLimitSec || 20)
Quizzes ==
  { [questions |-> << [correctIndices |-> <<1>>, timeLimitSec |-> 0] >>],
    [questions |-> << [correctIndices |-> <<0, 2>>, timeLimitSec |-> 1],
                      [correctIndices |-> <<0>>, timeLimitSec |-> 1] >>] }

Indices == 0 .. (NumChoices - 1)

SeqsUpTo(S, n) == UNION { [1..k -> S] : k \in 0..n }

\* a choiceIndices payload: an array of indices, or a single index
Arr(s) == [isArray |-> TRUE, arr |-> s, one |-> 0]
One(i) == [isArray |-> FALSE, arr |-> << >>, one |-> i]
Payloads(n) ==
  { Arr(s) : s \in SeqsUpTo(Indices, n) } \cup { One(i) : i \in Indices }

\* the payloads clients submit in the room model
AnswerInputs ==
  { One(0), One(1), Arr(<< >>), Arr(<<1>>), Arr(<<2, 0>>), Arr(<<0, 1>>),
    Arr(<<1, 1>>), Arr(<<0, 0>>) }

(* ------------------------------ state ---------------------------------- *)
VARIABLES
  rooms,      \* const rooms = new Map(): entries in insertion order
  timers,     \* pending setTimeout callbacks, in scheduling order
  now,        \* Date.now()
  connected,  \* sockets with a live connection
  closed,     \* sockets that have disconnected (a socket id is never reused)
  members,    \* socket.io groups: room code -> sockets joined to it
  out,        \* events emitted by the last handler, in order
  fault,      \* "none", or the handler that threw an uncaught TypeError
  ev,         \* the inbound event or callback that ran last: type, socket, room code
  events,     \* number of handler runs and clock steps so far
  gens,       \* history: room code -> number of rooms created under it so far
  ended,      \* history: room code -> indices at which the registered room got question:end
  sq, sc, st, sres,  \* scoring function on its own: question, payload, timeLeftMs, result
  lp, lb      \* makeLeaderboard on its own: players, result

vars == << rooms, timers, now, connected, closed, members, out, ev, fault, events,
           gens, ended, sq, sc, st, sres, lp, lb >>

roomVars == << rooms, timers, now, connected, closed, members, out, ev, fault, events,
               gens, ended >>
scoreVars == << sq, sc, st, sres >>
boardVars == << lp, lb >>

(* --------------------------- Map operations ----------------------------- *)
\* Map.has / Map.get / Map.set / Map.delete on a sequence of entries keyed by field k.
\* Map.set on an existing key keeps the entry's position; a new key is appended.
RoomHas(rs, code) == \E i \in 1..Len(rs) : rs[i].code = code
RoomGet(rs, code) == rs[CHOOSE i \in 1..Len(rs) : rs[i].code = code]
RoomSet(rs, code, room) ==
  IF RoomHas(rs, code)
  THEN [i \in 1..Len(rs) |-> IF rs[i].code = code THEN room ELSE rs[i]]
  ELSE Append(rs, room)
RoomDelete(rs, code) == SelectSeq(rs, LAMBDA r : r.code # code)

PlayerHas(ps, id) == \E i \in 1..Len(ps) : ps[i].id = id
PlayerGet(ps, id) == ps[CHOOSE i \in 1..Len(ps) : ps[i].id = id]
PlayerSet(ps, id, p) ==
  IF PlayerHas(ps, id)
  THEN [i \in 1..Len(ps) |-> IF ps[i].id = id THEN p ELSE ps[i]]
  ELSE Append(ps, p)
PlayerDelete(ps, id) == SelectSeq(ps, LAMBDA p : p.id # id)

\* Array.from(room.players.values())
PlayerValues(ps) == [i \in 1..Len(ps) |-> [name |-> ps[i].name, score |-> ps[i].score,
                                            answered |-> ps[i].answered]]

(* ------------------------------ arrays ---------------------------------- *)
\* arr.includes(x)
Includes(arr, x) == \E i \in 1..Len(arr) : arr[i] = x

RECURSIVE InsertAsc(_, _)
InsertAsc(s, x) ==
  IF s = << >> THEN << x >>
  ELSE IF x < Head(s) THEN << x >> \o s
  ELSE << Head(s) >> \o InsertAsc(Tail(s), x)

\* arr.sort((a, b) => a - b)
RECURSIVE SortAsc(_)
SortAsc(s) == IF s = << >> THEN << >> ELSE InsertAsc(SortAsc(SubSeq(s, 1, Len(s) - 1)), s[Len(s)])

\* InsertDesc that puts e before the entries of equal score: an unstable sort
RECURSIVE InsertDescUnstable(_, _)
InsertDescUnstable(s, e) ==
  IF s = << >> THEN << e >>
  ELSE IF e.score >= Head(s).score THEN << e >> \o s
  ELSE << Head(s) >> \o InsertDescUnstable(Tail(s), e)

\* insert e after every entry whose score is >= e.score: a stable descending sort
RECURSIVE InsertDesc(_, _)
InsertDesc(s, e) ==
  IF s = << >> THEN << e >>
  ELSE IF e.score > Head(s).score THEN << e >> \o s
  ELSE << Head(s) >> \o InsertDesc(Tail(s), e)

\* arr.sort((a, b) => b.score - a.score), stable
RECURSIVE SortDesc(_)
SortDesc(s) == IF s = << >> THEN << >> ELSE InsertDesc(SortDesc(SubSeq(s, 1, Len(s) - 1)), s[Len(s)])

\* makeLeaderboard(room)
makeLeaderboard(room) ==
  SortDesc([i \in 1..Len(room.players) |->
              [name |-> room.players[i].name, score |-> room.players[i].score]])

(* ------------------------------ scoring --------------------------------- *)
RECURSIVE GCD(_, _)
GCD(a, b) == IF b = 0 THEN a ELSE GCD(b, a % b)
RECURSIVE LCMUpTo(_)
LCMUpTo(n) == IF n <= 1 THEN 1 ELSE (LCMUpTo(n - 1) * n) \div GCD(LCMUpTo(n - 1), n)

\* scores are stored as multiples of 1/ScoreScale points
ScoreScale == LCMUpTo(NumChoices)
Points(n) == n * ScoreScale

\* const playerAnswers = Array.isArray(choiceIndices) ? ....sort(...) : [Number(choiceIndices)]
PlayerAnswers(choiceIndices) ==
  IF choiceIndices.isArray THEN SortAsc(choiceIndices.arr) ELSE << choiceIndices.one >>

CorrectChoices(q, choiceIndices) ==
  SelectSeq(PlayerAnswers(choiceIndices), LAMBDA idx : Includes(q.correctIndices, idx))

IncorrectChoices(q, choiceIndices) ==
  SelectSeq(PlayerAnswers(choiceIndices), LAMBDA idx : ~Includes(q.correctIndices, idx))

IsFullyCorrect(q, choiceIndices) ==
  /\ Len(CorrectChoices(q, choiceIndices)) = Len(q.correctIndices)
  /\ Len(IncorrectChoices(q, choiceIndices)) = 0

\* scoreEarned of the player:answer handler, in 1/ScoreScale points
ScoreEarned(q, choiceIndices, timeLeftMs) ==
  IF Len(q.correctIndices) > 0
  THEN IF IsFullyCorrect(q, choiceIndices)
       THEN Points(BasePoints + (timeLeftMs \div BonusStepMs))
       ELSE IF Len(CorrectChoices(q, choiceIndices)) > 0
            THEN (Points(BasePoints) \div Len(q.correctIndices))
                   * Len(CorrectChoices(q, choiceIndices))
            ELSE 0
  ELSE 0

\* Math.max(0, room.endsAt - Date.now())
TimeLeftMs(endsAt, t) == IF endsAt - t > 0 THEN endsAt - t ELSE 0

\* (q.timeLimitSec || 20) * 1000
TimeLimitMs(q) == (IF q.timeLimitSec = 0 THEN DefaultTimeLimitSec ELSE q.timeLimitSec) * 1000

(* ------------------------------ emits ----------------------------------- *)
\* io.to(to).emit(event, data)
Emit(to, event, data) == [to |-> to, event |-> event, data |-> data]

\* idx is the question index a timer callback was scheduled for, -1 otherwise
Event(type, conn, code, idx) == [type |-> type, conn |-> conn, code |-> code, idx |-> idx]

Emitted(es, to, event) == \E i \in 1..Len(es) : es[i].event = event /\ es[i].to = to

(* --------------------------- room helpers ------------------------------- *)
\* the object stored by rooms.set(roomCode, {...}) in host:create_room
NewRoom(roomCode, c, decoded, quiz) ==
  [code |-> roomCode, hostId |-> c, hostUserId |-> decoded.id, quiz |-> quiz,
   players |-> << >>, currentQ |-> -1, endsAt |-> Null]

\* CurrentQuestion that always reads the first question of the quiz
CurrentQuestionFirst(room) == room.quiz.questions[1]

\* room.quiz.questions[room.currentQ] is undefined outside 0 .. length-1
HasQuestion(room) == room.currentQ >= 0 /\ room.currentQ < Len(room.quiz.questions)
CurrentQuestion(room) == room.quiz.questions[room.currentQ + 1]

\* the entry stored by room.players.set(socket.id, {...}) in player:join
NewPlayer(c, name) == [id |-> c, name |-> name, score |-> 0, answered |-> FALSE]

\* IsHostRole without the comparison: any verified token may create a room
IsHostRoleUnchecked(decoded) == TRUE

\* decoded.role !== "host" rejects host:create_room
IsHostRole(decoded) == decoded.role = "host"

\* IsHost without the comparison: any socket may advance the room
IsHostUnchecked(room, c) == TRUE

\* socket.id !== room.hostId is the only authorization of host:next_question
IsHost(room, c) == c = room.hostId

\* NextIndex restarting the quiz once the index is past the last question
NextIndexWrapping(room) ==
  IF room.currentQ + 1 > Len(room.quiz.questions) THEN 0 ELSE room.currentQ + 1

\* room.currentQ += 1
NextIndex(room) == room.currentQ + 1

\* room.currentQ >= room.quiz.questions.length
IsGameOver(room) == room.currentQ >= Len(room.quiz.questions)

\* for (const p of room.players.values()) p.answered = false
ResetAnswered(ps) == [i \in 1..Len(ps) |-> [ps[i] EXCEPT !.answered = FALSE]]

\* AnswerAccepted without the player.answered test
AnswerAcceptedNoReplayCheck(room, c) == PlayerHas(room.players, c)

\* if (!player || player.answered) return
AnswerAccepted(room, c) ==
  /\ PlayerHas(room.players, c)
  /\ ~PlayerGet(room.players, c).answered

\* RoomsAfterDisconnect without rooms.delete(code): only player entries are removed
RoomsAfterDisconnectKeepsHosted(rs, c) ==
  [i \in 1..Len(rs) |-> [rs[i] EXCEPT !.players = PlayerDelete(@, c)]]

\* RoomsAfterDisconnect without room.players.delete(socket.id): only hosted rooms go
RoomsAfterDisconnectKeepsPlayers(rs, c) == SelectSeq(rs, LAMBDA r : r.hostId # c)

\* rooms after the sweep of the disconnect handler: hosted rooms deleted,
\* otherwise the socket's player entry deleted
RoomsAfterDisconnect(rs, c) ==
  LET kept == SelectSeq(rs, LAMBDA r : r.hostId # c)
  IN  [i \in 1..Len(kept) |-> [kept[i] EXCEPT !.players = PlayerDelete(@, c)]]

\* the emits of that sweep, in Map iteration order
RECURSIVE DisconnectEmits(_, _)
DisconnectEmits(rs, c) ==
  IF rs = << >> THEN << >>
  ELSE LET r == Head(rs)
           e == IF r.hostId = c
                THEN << Emit(r.code, "game:closed", << >>) >>
                ELSE IF PlayerHas(r.players, c)
                     THEN << Emit(r.code, "host:players_update",
                                  [players |-> PlayerValues(PlayerDelete(r.players, c))]) >>
                     ELSE << >>
       IN  e \o DisconnectEmits(Tail(rs), c)

\* the pending timer Node runs next: the earliest due, the first scheduled among equals
TimerIsNext(i) ==
  /\ timers[i].fireAt <= now
  /\ \A j \in 1..Len(timers) :
       j # i => \/ timers[j].fireAt > timers[i].fireAt
                \/ (timers[j].fireAt = timers[i].fireAt /\ j > i)

RemoveAt(s, i) == SubSeq(s, 1, i - 1) \o SubSeq(s, i + 1, Len(s))

(* ------------------------------ Init ------------------------------------ *)
NoQuestion == [correctIndices |-> <<0>>, timeLimitSec |-> 0]
NoPayload == [isArray |-> FALSE, arr |-> << >>, one |-> 0]

\* no leaderboard computed yet
NoBoard == [calls |-> 0, board |-> << >>]

Init ==
  /\ rooms = << >>
  /\ timers = << >>
  /\ now = 1
  /\ connected = {}
  /\ closed = {}
  /\ members = [k \in RoomCodes |-> {}]
  /\ out = << >>
  /\ fault = "none"
  /\ ev = Event("init", "", "", -1)
  /\ events = 0
  /\ gens = [k \in RoomCodes |-> 0]
  /\ ended = [k \in RoomCodes |-> {}]
  /\ sq = NoQuestion /\ sc = NoPayload /\ st = 0 /\ sres = -1
  /\ lp = << >> /\ lb = NoBoard

(* ------------------------------ actions --------------------------------- *)
\* the process is alive (no uncaught exception) and the run is within its bound
Running == fault = "none" /\ events < MaxEvents

\* io.on("connection", ...)
Connect(c) ==
  /\ Running
  /\ events' = events + 1
  /\ ev' = Event("connection", c, "", -1)
  /\ Cardinality(connected \cup closed) < Len(SocketIds)
  /\ c = SocketIds[Cardinality(connected \cup closed) + 1]
  /\ connected' = connected \cup {c}
  /\ out' = << >>
  /\ UNCHANGED << rooms, timers, now, closed, members, fault, gens, ended >>
  /\ UNCHANGED << scoreVars, boardVars >>

\* socket.on("host:create_room", ...); roomCode is the value drawn from Math.random()
CreateRoom(c, quiz, token, roomCode) ==
  /\ Running
  /\ events' = events + 1
  /\ ev' = Event("host:create_room", c,
                 IF token.valid /\ IsHostRole(token) THEN roomCode ELSE "", -1)
  /\ c \in connected
  /\ IF ~token.valid
     THEN /\ out' = << Emit(c, "error", [message |-> "Invalid or expired token."]) >>
          /\ UNCHANGED << rooms, members, gens, ended >>
     ELSE IF ~IsHostRole(token)
     THEN /\ out' = << Emit(c, "error",
                            [message |-> "Unauthorized: Only hosts can create rooms."]) >>
          /\ UNCHANGED << rooms, members, gens, ended >>
     ELSE /\ rooms' = RoomSet(rooms, roomCode, NewRoom(roomCode, c, token, quiz))
          /\ members' = [members EXCEPT ![roomCode] = @ \cup {c}]
          /\ out' = << Emit(c, "host:room_created", [roomCode |-> roomCode]) >>
          /\ gens' = [gens EXCEPT ![roomCode] = @ + 1]
          /\ ended' = [ended EXCEPT ![roomCode] = {}]
  /\ UNCHANGED << timers, now, connected, closed, fault >>
  /\ UNCHANGED << scoreVars, boardVars >>

\* socket.on("player:join", ...)
Join(c, roomCode, name) ==
  /\ Running
  /\ events' = events + 1
  /\ ev' = Event("player:join", c, roomCode, -1)
  /\ c \in connected
  /\ IF ~RoomHas(rooms, roomCode)
     THEN /\ out' = << Emit(c, "error", [message |-> "Room not found"]) >>
          /\ UNCHANGED << rooms, members >>
     ELSE LET room == RoomGet(rooms, roomCode)
              ps == PlayerSet(room.players, c, NewPlayer(c, name))
          IN  /\ rooms' = RoomSet(rooms, roomCode, [room EXCEPT !.players = ps])
              /\ members' = [members EXCEPT ![roomCode] = @ \cup {c}]
              /\ out' = << Emit(roomCode, "host:players_update",
                                [players |-> PlayerValues(ps)]),
                           Emit(roomCode, "lobby:update", [count |-> Len(ps)]) >>
  /\ UNCHANGED << timers, now, connected, closed, fault, gens, ended >>
  /\ UNCHANGED << scoreVars, boardVars >>

\* socket.on("host:next_question", ...)
NextQuestion(c, roomCode) ==
  /\ Running
  /\ events' = events + 1
  /\ ev' = Event("host:next_question", c, roomCode, -1)
  /\ c \in connected
  /\ IF ~RoomHas(rooms, roomCode) \/ ~IsHost(RoomGet(rooms, roomCode), c)
     THEN /\ out' = << >>
          /\ UNCHANGED << rooms, timers >>
     ELSE LET room == RoomGet(rooms, roomCode)
              room1 == [room EXCEPT !.currentQ = NextIndex(room)]
          IN  /\ room.currentQ < MaxCurrentQ
              /\ IF IsGameOver(room1)
                 THEN /\ rooms' = RoomSet(rooms, roomCode, room1)
                      /\ out' = << Emit(roomCode, "game:over",
                                        [leaderboard |-> makeLeaderboard(room1)]) >>
                      /\ UNCHANGED timers
                 ELSE LET q == CurrentQuestion(room1)
                          endsAt == now + TimeLimitMs(q)
                          room2 == [room1 EXCEPT !.players = ResetAnswered(@),
                                                 !.endsAt = endsAt]
                      IN  /\ Len(timers) < MaxTimers
                          /\ rooms' = RoomSet(rooms, roomCode, room2)
                          /\ out' = << Emit(roomCode, "question:start",
                                            [index |-> room2.currentQ, endsAt |-> endsAt,
                                             hasMultipleAnswers |->
                                               Len(q.correctIndices) > 1]) >>
                          /\ timers' = Append(timers,
                                              [code |-> roomCode,
                                               fireAt |-> now + TimeLimitMs(q) + GraceMs,
                                               idx |-> room2.currentQ,
                                               gen |-> gens[roomCode]])
  /\ UNCHANGED << now, connected, closed, members, fault, gens, ended >>
  /\ UNCHANGED << scoreVars, boardVars >>

\* socket.on("player:answer", ...)
Answer(c, roomCode, choiceIndices) ==
  /\ Running
  /\ events' = events + 1
  /\ ev' = Event("player:answer", c, roomCode, -1)
  /\ c \in connected
  /\ IF ~RoomHas(rooms, roomCode) \/ ~AnswerAccepted(RoomGet(rooms, roomCode), c)
     THEN /\ out' = << >>
          /\ UNCHANGED << rooms, fault >>
     ELSE LET room == RoomGet(rooms, roomCode)
              player == PlayerGet(room.players, c)
              marked == [player EXCEPT !.answered = TRUE]
          IN  IF ~HasQuestion(room)
              THEN \* q is undefined: q.correctIndices throws after answered was set
                   /\ rooms' = RoomSet(rooms, roomCode,
                                  [room EXCEPT !.players = PlayerSet(@, c, marked)])
                   /\ out' = << >>
                   /\ fault' = "player:answer"
              ELSE LET scoreEarned == ScoreEarned(CurrentQuestion(room), choiceIndices,
                                                  TimeLeftMs(room.endsAt, now))
                       scored == [marked EXCEPT !.score = @ + scoreEarned]
                       room1 == [room EXCEPT !.players = PlayerSet(@, c, scored)]
                   IN  /\ rooms' = RoomSet(rooms, roomCode, room1)
                       /\ out' = << Emit(c, "player:answer_result",
                                         [correct |-> scoreEarned > 0]),
                                    Emit(room.hostId, "host:leaderboard",
                                         makeLeaderboard(room1)) >>
                       /\ UNCHANGED fault
  /\ UNCHANGED << timers, now, connected, closed, members, gens, ended >>
  /\ UNCHANGED << scoreVars, boardVars >>

\* socket.on("disconnect", ...); socket.io has removed the socket from its groups
Disconnect(c) ==
  /\ Running
  /\ events' = events + 1
  /\ ev' = Event("disconnect", c, "", -1)
  /\ c \in connected
  /\ connected' = connected \ {c}
  /\ closed' = closed \cup {c}
  /\ members' = [k \in RoomCodes |-> members[k] \ {c}]
  /\ rooms' = RoomsAfterDisconnect(rooms, c)
  /\ out' = DisconnectEmits(rooms, c)
  /\ ended' = [k \in RoomCodes |-> IF RoomHas(rooms, k) /\ ~RoomHas(rooms', k)
                                    THEN {} ELSE ended[k]]
  /\ UNCHANGED << timers, now, fault, gens >>
  /\ UNCHANGED << scoreVars, boardVars >>

\* the callback () => endQuestion(io, roomCode) scheduled by host:next_question
EndQuestion(i) ==
  /\ Running
  /\ events' = events + 1
  /\ i \in 1..Len(timers)
  /\ TimerIsNext(i)
  /\ ev' = Event("endQuestion", "", timers[i].code, timers[i].idx)
  /\ timers' = RemoveAt(timers, i)
  /\ IF ~RoomHas(rooms, timers[i].code)
     THEN /\ out' = << >>
          /\ UNCHANGED << fault, ended >>
     ELSE LET room == RoomGet(rooms, timers[i].code)
          IN  IF ~HasQuestion(room)
              THEN \* q is undefined: q.correctIndices throws
                   /\ out' = << >>
                   /\ fault' = "endQuestion"
                   /\ UNCHANGED ended
              ELSE /\ out' = << Emit(room.code, "question:end",
                                     [correctIndices |-> CurrentQuestion(room).correctIndices,
                                      leaderboard |-> makeLeaderboard(room)]) >>
                   /\ ended' = [ended EXCEPT ![room.code] = @ \cup {room.currentQ}]
                   /\ UNCHANGED fault
  /\ UNCHANGED << rooms, now, connected, closed, members, gens >>
  /\ UNCHANGED << scoreVars, boardVars >>

\* time passes between two handler runs
Tick(d) ==
  /\ Running
  /\ events' = events + 1
  /\ ev' = Event("tick", "", "", -1)
  /\ now + d <= MaxNow
  /\ now' = now + d
  /\ out' = << >>
  /\ UNCHANGED << rooms, timers, connected, closed, members, fault, gens, ended >>
  /\ UNCHANGED << scoreVars, boardVars >>

Next ==
  \/ \E c \in Sockets : Connect(c)
  \/ \E c \in Sockets, quiz \in Quizzes, token \in Tokens, roomCode \in RoomCodes :
       CreateRoom(c, quiz, token, roomCode)
  \/ \E c \in Sockets, roomCode \in RoomCodes, name \in Names : Join(c, roomCode, name)
  \/ \E c \in Sockets, roomCode \in RoomCodes : NextQuestion(c, roomCode)
  \/ \E c \in Sockets, roomCode \in RoomCodes, choiceIndices \in AnswerInputs :
       Answer(c, roomCode, choiceIndices)
  \/ \E c \in Sockets : Disconnect(c)
  \/ \E i \in 1..MaxTimers : EndQuestion(i)
  \/ \E d \in TickSteps : Tick(d)

Spec == Init /\ [][Next]_vars

(* ------------------- the scoring function on its own -------------------- *)
RECURSIVE SetToSeq(_)
SetToSeq(S) ==
  IF S = {} THEN << >>
  ELSE LET m == CHOOSE x \in S : \A y \in S : x <= y
       IN  << m >> \o SetToSeq(S \ {m})

\* questions whose correct set is any non-empty set of choice indices
ScoreQuestions ==
  { [correctIndices |-> SetToSeq(S), timeLimitSec |-> 0] : S \in (SUBSET Indices) \ {{}} }

\* values of Math.max(0, room.endsAt - Date.now())
TimeLefts == {0, 49, 50, 5000, 20000}

ScoreInit ==
  /\ rooms = << >>
  /\ timers = << >>
  /\ now = 1
  /\ connected = {}
  /\ closed = {}
  /\ members = [k \in RoomCodes |-> {}]
  /\ out = << >>
  /\ ev = Event("init", "", "", -1)
  /\ fault = "none"
  /\ events = 0
  /\ gens = [k \in RoomCodes |-> 0]
  /\ ended = [k \in RoomCodes |-> {}]
  /\ lp = << >> /\ lb = NoBoard
  /\ sq \in ScoreQuestions
  /\ sc \in Payloads(MaxSubmitLen)
  /\ st \in TimeLefts
  /\ sres = -1

\* lines 99-121 of the player:answer handler applied to (sq, sc, st)
Score ==
  /\ sres = -1
  /\ sres' = ScoreEarned(sq, sc, st)
  /\ UNCHANGED << sq, sc, st >>
  /\ UNCHANGED << roomVars, boardVars >>

ScoreNext == Score

ScoreSpec == ScoreInit /\ [][ScoreNext]_vars

(* ------------------- makeLeaderboard on its own ------------------------- *)
LeaderNames == {"ann", "bob"}
\* scores a player can hold after one question with two correct choices
LeaderScores == {0, Points(BasePoints) \div 2, Points(BasePoints)}

\* room.players of up to MaxPlayers entries; the i-th inserted key is named i
LeaderPlayers ==
  { [i \in 1..Len(s) |-> [id |-> i, name |-> s[i].name, score |-> s[i].score,
                          answered |-> FALSE]] :
      s \in SeqsUpTo([name : LeaderNames, score : LeaderScores], MaxPlayers) }

LeaderInit ==
  /\ rooms = << >>
  /\ timers = << >>
  /\ now = 1
  /\ connected = {}
  /\ closed = {}
  /\ members = [k \in RoomCodes |-> {}]
  /\ out = << >>
  /\ ev = Event("init", "", "", -1)
  /\ fault = "none"
  /\ events = 0
  /\ gens = [k \in RoomCodes |-> 0]
  /\ ended = [k \in RoomCodes |-> {}]
  /\ sq = NoQuestion /\ sc = NoPayload /\ st = 0 /\ sres = -1
  /\ lp \in LeaderPlayers
  /\ lb = NoBoard

\* makeLeaderboard(room) computed once more on the same room
Leaderboard ==
  /\ lb.calls < MaxCalls
  /\ lb' = [calls |-> lb.calls + 1, board |-> makeLeaderboard([players |-> lp])]
  /\ UNCHANGED lp
  /\ UNCHANGED << roomVars, scoreVars >>

LeaderNext == Leaderboard

LeaderSpec == LeaderInit /\ [][LeaderNext]_vars

(* ------------------------------ claims ---------------------------------- *)
RoomAt(rs, k) == RoomGet(rs, k)
SeqSet(s) == { s[i] : i \in 1..Len(s) }
\* the distinct indices a payload submits
Submitted(choiceIndices) ==
  IF choiceIndices.isArray THEN SeqSet(choiceIndices.arr) ELSE { choiceIndices.one }
\* the step ran host:create_room and stored a room under code k
CreatedNow(k) == ev'.type = "host:create_room" /\ ev'.code = k

\* C1: when the timer scheduled for question index i of room R fires, it does nothing
\* (no emit, no state change) if R is gone or R is no longer on index i; it broadcasts
\* question:end only when R exists and is still on index i.
C1_StaleTimerDoesNothing ==
  [][ ev'.type = "endQuestion" =>
        IF RoomHas(rooms, ev'.code) /\ RoomAt(rooms, ev'.code).currentQ = ev'.idx
        THEN Emitted(out', ev'.code, "question:end")
        ELSE Len(out') = 0 /\ rooms' = rooms /\ fault' = fault ]_vars

\* C2: no inbound event handler and no end-question timer callback ever ends in an
\* unhandled fault.
C2_NoUnhandledFault == fault = "none"

C4_IndexMonotoneHostOnly ==
  [][ \A k \in RoomCodes :
        (RoomHas(rooms, k) /\ RoomHas(rooms', k) /\ ~CreatedNow(k)) =>
          /\ RoomAt(rooms', k).currentQ >= RoomAt(rooms, k).currentQ
          /\ RoomAt(rooms', k).currentQ # RoomAt(rooms, k).currentQ =>
               /\ ev'.type = "host:next_question"
               /\ ev'.code = k
               /\ ev'.conn = RoomAt(rooms, k).hostId ]_vars

\* a socket that is not the host has just sent host:next_question for a room that the
\* host had already advanced, and the room has a player
C4_Witness ==
  /\ ev.type = "host:next_question"
  /\ RoomHas(rooms, ev.code)
  /\ RoomAt(rooms, ev.code).hostId # ev.conn
  /\ RoomAt(rooms, ev.code).currentQ >= 0
  /\ Len(RoomAt(rooms, ev.code).players) > 0

\* C5: in every reachable state -1 <= currentQ <= number of questions of the quiz.
C5_IndexWithinQuiz ==
  \A i \in 1..Len(rooms) :
    rooms[i].currentQ >= -1 /\ rooms[i].currentQ <= Len(rooms[i].quiz.questions)

\* C6: once a room's index has reached the quiz length (game over), the room stays
\* there for as long as it is registered and no step broadcasts question:start to it.
C6_NoQuestionAfterGameOver ==
  [][ \A k \in RoomCodes :
        (RoomHas(rooms, k) /\ RoomAt(rooms, k).currentQ >= Len(RoomAt(rooms, k).quiz.questions))
          => /\ ~Emitted(out', k, "question:start")
             /\ (RoomHas(rooms', k) /\ ~CreatedNow(k)) =>
                  RoomAt(rooms', k).currentQ >= Len(RoomAt(rooms', k).quiz.questions) ]_vars

\* host:next_question was handled again for a room that was already over
C6_Witness ==
  /\ ev.type = "host:next_question"
  /\ RoomHas(rooms, ev.code)
  /\ RoomAt(rooms, ev.code).hostId = ev.conn
  /\ RoomAt(rooms, ev.code).currentQ > Len(RoomAt(rooms, ev.code).quiz.questions)
  /\ Len(RoomAt(rooms, ev.code).quiz.questions) > 0
  /\ Emitted(out, ev.code, "game:over")

\* C7: a player:answer from a socket whose player already has answered = TRUE changes
\* no room (so no score) and emits nothing.
C7_ReplayIsNoOp ==
  [][ ( /\ ev'.type = "player:answer"
        /\ RoomHas(rooms, ev'.code)
        /\ PlayerHas(RoomAt(rooms, ev'.code).players, ev'.conn)
        /\ PlayerGet(RoomAt(rooms, ev'.code).players, ev'.conn).answered )
      => (rooms' = rooms /\ Len(out') = 0 /\ fault' = fault) ]_vars

\* a second submission by a player who had scored on the current question was dropped
C7_Witness ==
  /\ ev.type = "player:answer"
  /\ RoomHas(rooms, ev.code)
  /\ PlayerHas(RoomAt(rooms, ev.code).players, ev.conn)
  /\ PlayerGet(RoomAt(rooms, ev.code).players, ev.conn).answered
  /\ PlayerGet(RoomAt(rooms, ev.code).players, ev.conn).score > 0
  /\ Len(out) = 0
  /\ fault = "none"

\* C8: while a room stays registered, the score of each of its players is >= 0 and
\* never decreases.
C8_ScoreNeverDecreases ==
  [][ \A k \in RoomCodes :
        (RoomHas(rooms, k) /\ RoomHas(rooms', k) /\ ~CreatedNow(k)) =>
          \A c \in Sockets :
            (PlayerHas(RoomAt(rooms, k).players, c) /\ PlayerHas(RoomAt(rooms', k).players, c))
              => /\ PlayerGet(RoomAt(rooms, k).players, c).score >= 0
                 /\ PlayerGet(RoomAt(rooms', k).players, c).score
                      >= PlayerGet(RoomAt(rooms, k).players, c).score ]_vars

\* C9: a submission is awarded 1000 + floor(timeLeftMs / 50) points exactly when its set
\* of distinct submitted indices equals the correct set, and for such a submission the
\* award does not grow as the time left shrinks.
C9_FullAwardIffSetEqual ==
  sres # -1 =>
    /\ (sres = Points(BasePoints + (st \div BonusStepMs)))
         <=> (Submitted(sc) = SeqSet(sq.correctIndices))
    /\ Submitted(sc) = SeqSet(sq.correctIndices) =>
         \A t \in TimeLefts : t <= st => ScoreEarned(sq, sc, t) <= sres

\* C10: a submission that is not fully correct but holds a correct choice is awarded
\* (1000 / |correct set|) * |distinct submitted indices in the correct set|, which is
\* below 1000 and independent of the time left.
C10_PartialAward ==
  ( /\ sres # -1
    /\ Submitted(sc) # SeqSet(sq.correctIndices)
    /\ Submitted(sc) \cap SeqSet(sq.correctIndices) # {} )
  => /\ sres = (Points(BasePoints) \div Len(sq.correctIndices))
                 * Cardinality(Submitted(sc) \cap SeqSet(sq.correctIndices))
     /\ sres < Points(BasePoints)

\* C11: host:create_room never replaces or removes a room that is already in the
\* registry: every room registered before a create step is registered after it, under
\* the same code, with the same host, players and question index.
C11_CreateKeepsExistingRooms ==
  [][ ev'.type = "host:create_room" =>
        \A k \in RoomCodes :
          RoomHas(rooms, k) =>
            /\ RoomHas(rooms', k)
            /\ RoomAt(rooms', k).hostId = RoomAt(rooms, k).hostId
            /\ RoomAt(rooms', k).players = RoomAt(rooms, k).players
            /\ RoomAt(rooms', k).currentQ = RoomAt(rooms, k).currentQ ]_vars

\* C12: a room is stored in the registry only by a host:create_room step whose token
\* verifies with role host; a host:create_room step whose token fails to verify or has
\* another role leaves the registry and the group memberships unchanged and emits
\* exactly one event, an error addressed to the sending socket.
C12_OnlyVerifiedHostCreates ==
  [][ /\ (gens' # gens \/ \E k \in RoomCodes : ~RoomHas(rooms, k) /\ RoomHas(rooms', k))
           => /\ ev'.type = "host:create_room"
              /\ \E quiz \in Quizzes, token \in Tokens, k \in RoomCodes :
                   token.valid /\ token.role = "host" /\ CreateRoom(ev'.conn, quiz, token, k)
      /\ ev'.type = "host:create_room" =>
           \A quiz \in Quizzes, token \in Tokens, k \in RoomCodes :
             (CreateRoom(ev'.conn, quiz, token, k) /\ ~(token.valid /\ token.role = "host"))
               => /\ rooms' = rooms
                  /\ members' = members
                  /\ Len(out') = 1
                  /\ out'[1].event = "error"
                  /\ out'[1].to = ev'.conn ]_vars

\* a verified token of role player was just rejected while a room with a player in it
\* was registered
C12_Witness ==
  /\ ev.type = "host:create_room"
  /\ Len(out) = 1
  /\ out[1].event = "error"
  /\ out[1].data = [message |-> "Unauthorized: Only hosts can create rooms."]
  /\ \E i \in 1..Len(rooms) : Len(rooms[i].players) > 0

\* C13: for each registered room and each question index i, at most one question:end is
\* broadcast while the room's currentQ is i: a step that broadcasts question:end to a
\* room finds no earlier question:end of that room at its current index.
C13_OneEndPerIndex ==
  [][ (ev'.type = "endQuestion" /\ Emitted(out', ev'.code, "question:end"))
        => RoomAt(rooms, ev'.code).currentQ \notin ended[ev'.code] ]_vars

\* C14: a player:answer for a registered room that has no current question (currentQ is
\* -1 or at least the quiz length) is a harmless no-op: no room changes (so no answered
\* flag and no score), nothing is emitted and the handler does not fault.
C14_AnswerWithoutQuestionIsNoOp ==
  [][ ( /\ ev'.type = "player:answer"
        /\ RoomHas(rooms, ev'.code)
        /\ ~HasQuestion(RoomAt(rooms, ev'.code)) )
      => (rooms' = rooms /\ Len(out') = 0 /\ fault' = fault) ]_vars

\* C15: the leaderboard of a room holds exactly one (name, score) entry per player of
\* the room, in descending order of score, players of equal score in their insertion
\* order; computed again on the unchanged room it is the same sequence.
C15_LeaderboardStableSorted ==
  [][ lb'.calls > 0 =>
        /\ Len(lb'.board) = Len(lp')
        /\ \E f \in Permutations(1..Len(lp')) :
             /\ \A j \in 1..Len(lp') :
                  lb'.board[j] = [name |-> lp'[f[j]].name, score |-> lp'[f[j]].score]
             /\ \A j \in 1..(Len(lp') - 1) :
                  \/ lb'.board[j].score > lb'.board[j + 1].score
                  \/ lb'.board[j].score = lb'.board[j + 1].score /\ f[j] < f[j + 1]
        /\ lb.calls > 0 => lb'.board = lb.board ]_vars

\* the leaderboard was computed twice for three players: the first has the lowest score
\* and moved to the end, the other two tie under different names
C15_Witness ==
  /\ lb.calls = 2
  /\ Len(lp) = 3
  /\ lp[1].score < lp[2].score
  /\ lp[2].score = lp[3].score
  /\ lp[2].name # lp[3].name
  /\ lb.board = << [name |-> lp[2].name, score |-> lp[2].score],
                   [name |-> lp[3].name, score |-> lp[3].score],
                   [name |-> lp[1].name, score |-> lp[1].score] >>

\* C16: right after a host:next_question step that broadcasts question:start, every
\* player of the room has answered = FALSE; and a player's answered flag turns TRUE only
\* in a player:answer step sent by that player's socket for that room, accepted for the
\* question that is current at that moment.
C16_AnsweredOnlyByOwnAnswer ==
  [][ \A k \in RoomCodes :
        /\ Emitted(out', k, "question:start") =>
             /\ ev'.type = "host:next_question"
             /\ RoomHas(rooms', k)
             /\ \A i \in 1..Len(RoomAt(rooms', k).players) :
                  ~RoomAt(rooms', k).players[i].answered
        /\ (RoomHas(rooms, k) /\ RoomHas(rooms', k)) =>
             \A c \in Sockets :
               ( /\ PlayerHas(RoomAt(rooms, k).players, c)
                 /\ PlayerHas(RoomAt(rooms', k).players, c)
                 /\ ~PlayerGet(RoomAt(rooms, k).players, c).answered
                 /\ PlayerGet(RoomAt(rooms', k).players, c).answered )
               => /\ ev'.type = "player:answer"
                  /\ ev'.conn = c
                  /\ ev'.code = k
                  /\ HasQuestion(RoomAt(rooms, k))
                  /\ Emitted(out', c, "player:answer_result") ]_vars

\* C17 as stated: every question started in a registered room gets a question:end that
\* carries its own correct set, whatever the host does in between. On finite runs: once
\* no timer is pending for a registered room, each index the room has started has had
\* a question:end carrying that question's correct set.
C17_StartedQuestionGetsItsEnd ==
  \A k \in RoomCodes :
    ( /\ fault = "none"
      /\ RoomHas(rooms, k)
      /\ \A j \in 1..Len(timers) : timers[j].code # k )
    => \A i \in 0..(Len(RoomAt(rooms, k).quiz.questions) - 1) :
         i <= RoomAt(rooms, k).currentQ =>
           \E e \in ended[k] :
             RoomAt(rooms, k).quiz.questions[e + 1].correctIndices
               = RoomAt(rooms, k).quiz.questions[i + 1].correctIndices

\* C17 amended: a step that broadcasts question:start schedules a timer for the started
\* index, due GraceMs after the deadline; a pending timer leaves the queue only by
\* firing; and a timer that fires while the room that scheduled it is still registered
\* and still on the timer's index broadcasts question:end with that question's correct
\* set.
C17_TimerEndsItsOwnQuestion ==
  [][ /\ \A k \in RoomCodes :
           Emitted(out', k, "question:start") =>
             \E j \in 1..Len(timers') :
               timers'[j] = [code |-> k, fireAt |-> RoomAt(rooms', k).endsAt + GraceMs,
                             idx |-> RoomAt(rooms', k).currentQ, gen |-> gens'[k]]
      /\ ev'.type # "endQuestion" =>
           (Len(timers') >= Len(timers) /\ SubSeq(timers', 1, Len(timers)) = timers)
      /\ ev'.type = "endQuestion" =>
           \A i \in 1..Len(timers) :
             ( /\ EndQuestion(i)
               /\ RoomHas(rooms, timers[i].code)
               /\ gens[timers[i].code] = timers[i].gen
               /\ RoomAt(rooms, timers[i].code).currentQ = timers[i].idx )
             => \E n \in 1..Len(out') :
                  /\ out'[n].to = timers[i].code
                  /\ out'[n].event = "question:end"
                  /\ out'[n].data.correctIndices
                       = RoomAt(rooms, timers[i].code).quiz.questions[timers[i].idx + 1].correctIndices
    ]_vars

\* the timer of the current question has just fired in a room that was never replaced,
\* after a player had answered, and question:end went out
C17_Witness ==
  /\ ev.type = "endQuestion"
  /\ RoomHas(rooms, ev.code)
  /\ gens[ev.code] = 1
  /\ RoomAt(rooms, ev.code).currentQ = ev.idx
  /\ Emitted(out, ev.code, "question:end")
  /\ \E i \in 1..Len(RoomAt(rooms, ev.code).players) :
       RoomAt(rooms, ev.code).players[i].answered

\* C18: a first player:answer for the current question that arrives after the room's
\* endsAt is accepted: the player's answered flag becomes TRUE, player:answer_result is
\* sent, and a submission whose set of indices equals the correct set adds exactly
\* BasePoints to the player's score (no bonus, nothing less).
C18_LateAnswerAccepted ==
  [][ ev'.type = "player:answer" =>
        \A choiceIndices \in AnswerInputs :
          ( /\ Answer(ev'.conn, ev'.code, choiceIndices)
            /\ RoomHas(rooms, ev'.code)
            /\ HasQuestion(RoomAt(rooms, ev'.code))
            /\ AnswerAccepted(RoomAt(rooms, ev'.code), ev'.conn)
            /\ now > RoomAt(rooms, ev'.code).endsAt )
          => /\ PlayerGet(RoomAt(rooms', ev'.code).players, ev'.conn).answered
             /\ Emitted(out', ev'.conn, "player:answer_result")
             /\ Submitted(choiceIndices)
                  = SeqSet(CurrentQuestion(RoomAt(rooms, ev'.code)).correctIndices)
                  => PlayerGet(RoomAt(rooms', ev'.code).players, ev'.conn).score
                       = PlayerGet(RoomAt(rooms, ev'.code).players, ev'.conn).score
                           + Points(BasePoints) ]_vars

\* C19: the correct set of a question is never broadcast before that question's own
\* deadline: when a timer callback has just broadcast question:end, which carries the
\* correct set of the room's current question, the clock has reached the room's endsAt.
C19_NoAnswerKeyBeforeDeadline ==
  (ev.type = "endQuestion" /\ Emitted(out, ev.code, "question:end"))
    => now >= RoomAt(rooms, ev.code).endsAt

\* C20: in every reachable state the registry refers only to live connections: the
\* hostId of every room and the key of every player entry is a connected socket.
C20_RegistryRefersToLiveConnections ==
  \A i \in 1..Len(rooms) :
    /\ rooms[i].hostId \in connected
    /\ \A j \in 1..Len(rooms[i].players) : rooms[i].players[j].id \in connected

\* a socket that hosted one room and played in another has just disconnected: the first
\* room was closed, the second lost the player and is still registered
C20_Witness ==
  /\ ev.type = "disconnect"
  /\ ev.conn \notin connected
  /\ \E k1, k2 \in RoomCodes :
       /\ Emitted(out, k1, "game:closed")
       /\ Emitted(out, k2, "host:players_update")
       /\ ~RoomHas(rooms, k1)
       /\ RoomHas(rooms, k2)

====
